---- MODULE Spec2Model ----
(***************************************************************************)
(* Model of src/pygochi.py: the Pet aggregate, its time-driven needs       *)
(* update (update_needs / _check_death_conditions) and its action          *)
(* handlers.  Timestamps are whole seconds, random.random() draws are      *)
(* whole percents (a draw u stands for u/100), weight is in hundredths.    *)
(***************************************************************************)
EXTENDS Integers, Sequences, FiniteSets, TLC

VARIABLES pet, now, op, steps, created_lut, saved

vars == <<pet, now, op, steps, created_lut, saved>>

(* ------------------------------------------------------------------ *)
(* Configuration defaults (DEFAULT_CONFIG, lines 22-35, read at 54-97) *)
(* ------------------------------------------------------------------ *)
UPDATE_INTERVAL_SECONDS == 30
SECONDS_PER_DAY == 86400
STAT_DECAY_AMOUNT == 2
ENERGY_DECAY_AWAKE == 2
DISCIPLINE_DECAY == 1
ENERGY_REGEN_SLEEP == 8
HAPPINESS_REGEN_SLEEP == 2
HEALTH_REGEN_CLEAN_FED == 1
MEDICINE_HEALTH_GAIN == 40
SCOLD_DISCIPLINE_GAIN == 15
PET_HAPPINESS_GAIN == 5
SCOLD_HAPPINESS_LOSS == 10
TRAIN_ENERGY_COST == 15
TRICK_ENERGY_COST == 15
HEALTH_DECAY_POOP == 3
HEALTH_DECAY_HUNGER == 2
AUTO_SLEEP_ENERGY_THRESHOLD == 15
AUTO_WAKE_ENERGY_THRESHOLD == 100
MAX_HUNGER_TO_SLEEP == 75
CRITICAL_HUNGER_THRESHOLD == 90
CRITICAL_HAPPINESS_THRESHOLD == 10
CRITICAL_HEALTH_THRESHOLD == 15
CRITICAL_ENERGY_THRESHOLD == 5
MAX_POOP == 4
MAX_AGE_DAYS == 20
MAX_TIME_CRITICAL_SECONDS == 3600
POOP_WINDOW_SECONDS == UPDATE_INTERVAL_SECONDS * 4
\* probabilities, in percent
POOP_CHANCE_BASE == 5
POOP_CHANCE_AFTER_MEAL == 40
REFUSAL_CHANCE_DIVISOR == 150
STAGE_CHILD_AGE == 1
STAGE_TEEN_AGE == 5
STAGE_ADULT_AGE == 10
STAGE_SENIOR_AGE == 15
TRAIN_SUCCESS_DISCIPLINE_FACTOR == 150
TRAIN_SUCCESS_HAPPINESS_FACTOR == 200
TRAIN_DISCIPLINE_GAIN == 5
TRAIN_HAPPINESS_GAIN == 10
TRAIN_FAILURE_DISCIPLINE_LOSS == -2
TRAIN_FAILURE_HAPPINESS_LOSS == -10
TRICK_DANCE_HAPPINESS_BOOST == 25
TRICK_SING_HAPPINESS_BOOST == 20
TRICK_FETCH_HAPPINESS_BOOST == 15
EVENT_LOG_SIZE == 10

\* FOOD_ITEMS (lines 101-115): weight_gain in hundredths
FOOD_ITEMS ==
  [ apple    |-> [hunger_restore |-> 15, happiness_boost |-> 5,  health_boost |-> 1,  weight_gain |-> 5],
    cake     |-> [hunger_restore |-> 25, happiness_boost |-> 15, health_boost |-> -2, weight_gain |-> 20],
    veg      |-> [hunger_restore |-> 10, happiness_boost |-> 2,  health_boost |-> 3,  weight_gain |-> 2],
    fish     |-> [hunger_restore |-> 20, happiness_boost |-> 8,  health_boost |-> 2,  weight_gain |-> 10],
    treat    |-> [hunger_restore |-> 5,  happiness_boost |-> 25, health_boost |-> -1, weight_gain |-> 15],
    vitamins |-> [hunger_restore |-> 2,  happiness_boost |-> 0,  health_boost |-> 10, weight_gain |-> 1] ]

(* ------------------------------------------------------------------ *)
(* Bounds of the model                                                  *)
(* ------------------------------------------------------------------ *)
\* number of operations (handler calls, update_needs calls, clock moves) in a run
MaxSteps == 2
\* the wall clock at the start of a run, in seconds
StartClock == 4000000
\* what the wall clock may move by between two calls (it may step back)
ClockMoves == {-40, 10, 70}
\* the values a random.random() draw may take, in percent
Draws == {0, 20, 99}

(* ------------------------------------------------------------------ *)
(* Helpers                                                              *)
(* ------------------------------------------------------------------ *)
Max(a, b) == IF a >= b THEN a ELSE b
Min(a, b) == IF a <= b THEN a ELSE b

NoMessage == [kind |-> "", n |-> 0, health |-> "", illness |-> "", reason |-> ""]

\* time.strftime("%H:%M:%S"): the time of day of the wall clock
TimeOfDay(clk) == clk % SECONDS_PER_DAY

\* Pet._add_event: append to a deque(maxlen=EVENT_LOG_SIZE), the oldest entry falls out
AddEvent(p, clk, what, arg, num) ==
  LET e == [t |-> TimeOfDay(clk), what |-> what, arg |-> arg, num |-> num]
      l == Append(p.event_log, e)
  IN [p EXCEPT !.event_log = IF Len(l) > EVENT_LOG_SIZE THEN Tail(l) ELSE l]

\* Pet.__init__ at wall clock clk
NewPet(clk) ==
  AddEvent(
    [ name |-> "Critter",
      hunger |-> 50, happiness |-> 50, energy |-> 100, health |-> 100,
      discipline |-> 50, weight |-> 100,
      awake |-> TRUE, last_updated_timestamp |-> clk, birthday_timestamp |-> clk,
      poop_count |-> 0, last_meal_timestamp |-> 0,
      last_needs_message |-> NoMessage, is_dead |-> FALSE,
      time_hunger_critical_start |-> 0, time_happiness_critical_start |-> 0,
      tricks_learned |-> <<>>, event_log |-> <<>>, illness_type |-> "None" ],
    clk, "Born!", "", 0)

\* Pet.get_age_in_days: measured against the wall clock
AgeInDays(p, clk) == (clk - p.birthday_timestamp) \div SECONDS_PER_DAY

\* Pet.get_stage
Stage(p, clk) ==
  LET age == AgeInDays(p, clk)
  IN IF age < STAGE_CHILD_AGE THEN "Baby"
     ELSE IF age < STAGE_TEEN_AGE THEN "Child"
     ELSE IF age < STAGE_ADULT_AGE THEN "Teen"
     ELSE IF age < STAGE_SENIOR_AGE THEN "Adult"
     ELSE "Senior"

\* decay_modifier (line 219), in tenths: 1.5, 0.8 or 1.0
DecayModifier(stage) == IF stage = "Senior" THEN 15 ELSE IF stage = "Baby" THEN 8 ELSE 10

\* int(amount * decay_modifier)
Scaled(amount, stage) == (amount * DecayModifier(stage)) \div 10

(* ------------------------------------------------------------------ *)
(* Pet._check_death_conditions(now = t), wall clock clk, old-age draw u *)
(* ------------------------------------------------------------------ *)
\* _check_death_conditions with the reset of line 197 left out
CheckDeathKeepsHungerStart(p, t, clk, u) ==
  IF p.is_dead THEN p
  ELSE
    LET age_days == AgeInDays(p, clk)
        \* lines 192-197: the if / elif chain
        r1 == IF p.health <= 0 THEN "succumbed to poor health"
              ELSE IF age_days > MAX_AGE_DAYS /\ u < (age_days - MAX_AGE_DAYS) * 5
                THEN "passed away peacefully from old age"
              ELSE IF p.hunger >= 100 /\ p.time_hunger_critical_start # 0
                      /\ (t - p.time_hunger_critical_start) > MAX_TIME_CRITICAL_SECONDS
                THEN "starved"
              ELSE "None"
        inChain == ~(p.health <= 0)
                   /\ ~(age_days > MAX_AGE_DAYS /\ u < (age_days - MAX_AGE_DAYS) * 5)
        thc == IF ~inChain THEN p.time_hunger_critical_start
               ELSE IF p.hunger >= 100
                 THEN (IF p.time_hunger_critical_start = 0 THEN t
                       ELSE p.time_hunger_critical_start)
               ELSE p.time_hunger_critical_start
        \* lines 198-201: a separate if, evaluated whatever the chain found
        r2 == IF p.happiness <= 0 /\ p.time_happiness_critical_start # 0
                 /\ (t - p.time_happiness_critical_start) > MAX_TIME_CRITICAL_SECONDS
              THEN "lost the will to live"
              ELSE r1
        thp == IF p.happiness <= 0
                 THEN (IF p.time_happiness_critical_start = 0 THEN t
                       ELSE p.time_happiness_critical_start)
               ELSE 0
        q == [p EXCEPT !.time_hunger_critical_start = thc,
                       !.time_happiness_critical_start = thp]
    IN IF r2 = "None" THEN q
       ELSE AddEvent([q EXCEPT !.is_dead = TRUE,
                               !.last_needs_message =
                                  [NoMessage EXCEPT !.kind = "died", !.reason = r2],
                               !.awake = FALSE],
                     clk, "Died", r2, 0)

\* Pet._check_death_conditions
CheckDeath(p, t, clk, u) ==
  IF p.is_dead THEN p
  ELSE
    LET age_days == AgeInDays(p, clk)
        \* lines 192-197: the if / elif chain
        r1 == IF p.health <= 0 THEN "succumbed to poor health"
              ELSE IF age_days > MAX_AGE_DAYS /\ u < (age_days - MAX_AGE_DAYS) * 5
                THEN "passed away peacefully from old age"
              ELSE IF p.hunger >= 100 /\ p.time_hunger_critical_start # 0
                      /\ (t - p.time_hunger_critical_start) > MAX_TIME_CRITICAL_SECONDS
                THEN "starved"
              ELSE "None"
        inChain == ~(p.health <= 0)
                   /\ ~(age_days > MAX_AGE_DAYS /\ u < (age_days - MAX_AGE_DAYS) * 5)
        thc == IF ~inChain THEN p.time_hunger_critical_start
               ELSE IF p.hunger >= 100
                 THEN (IF p.time_hunger_critical_start = 0 THEN t
                       ELSE p.time_hunger_critical_start)
               ELSE 0
        \* lines 198-201: a separate if, evaluated whatever the chain found
        r2 == IF p.happiness <= 0 /\ p.time_happiness_critical_start # 0
                 /\ (t - p.time_happiness_critical_start) > MAX_TIME_CRITICAL_SECONDS
              THEN "lost the will to live"
              ELSE r1
        thp == IF p.happiness <= 0
                 THEN (IF p.time_happiness_critical_start = 0 THEN t
                       ELSE p.time_happiness_critical_start)
               ELSE 0
        q == [p EXCEPT !.time_hunger_critical_start = thc,
                       !.time_happiness_critical_start = thp]
    IN IF r2 = "None" THEN q
       ELSE AddEvent([q EXCEPT !.is_dead = TRUE,
                               !.last_needs_message =
                                  [NoMessage EXCEPT !.kind = "died", !.reason = r2],
                               !.awake = FALSE],
                     clk, "Died", r2, 0)

(* ------------------------------------------------------------------ *)
(* Pet.update_needs                                                     *)
(* ------------------------------------------------------------------ *)
\* The draws one tick makes (lines 234, 248, 250).  A draw the code does not
\* make, because the condition before its "and" is false, is fixed at 99.
TickRolls(p) ==
  [ poop : IF p.awake THEN Draws ELSE {99},
    cold : IF p.illness_type = "None" /\ p.health < 50 THEN Draws ELSE {99},
    stom : IF p.illness_type = "None" /\ p.hunger > CRITICAL_HUNGER_THRESHOLD
             THEN Draws ELSE {99} ]

\* an awake tick that also takes a hundredth off the weight
AwakeDecayBurnsWeight(p, current_health, stage) ==
  LET hunger == Min(100, p.hunger + Scaled(STAT_DECAY_AMOUNT, stage))
      energy == Max(0, p.energy - Scaled(ENERGY_DECAY_AWAKE, stage))
      happiness_drain ==
          Scaled(STAT_DECAY_AMOUNT, stage)
        + (IF hunger > 75 THEN STAT_DECAY_AMOUNT \div 2 ELSE 0)
        + (IF energy < 25 THEN STAT_DECAY_AMOUNT \div 2 ELSE 0)
        + (IF current_health < 50 THEN STAT_DECAY_AMOUNT ELSE 0)
        + (IF p.illness_type # "None" THEN STAT_DECAY_AMOUNT ELSE 0)
        + (IF p.poop_count > 0 THEN p.poop_count * 2 ELSE 0)
  IN [p EXCEPT !.hunger = hunger, !.energy = energy, !.weight = Max(0, p.weight - 1),
               !.happiness = Max(0, p.happiness - happiness_drain)]

\* lines 222-231: hunger, energy and happiness of an awake tick
AwakeDecay(p, current_health, stage) ==
  LET hunger == Min(100, p.hunger + Scaled(STAT_DECAY_AMOUNT, stage))
      energy == Max(0, p.energy - Scaled(ENERGY_DECAY_AWAKE, stage))
      happiness_drain ==
          Scaled(STAT_DECAY_AMOUNT, stage)
        + (IF hunger > 75 THEN STAT_DECAY_AMOUNT \div 2 ELSE 0)
        + (IF energy < 25 THEN STAT_DECAY_AMOUNT \div 2 ELSE 0)
        + (IF current_health < 50 THEN STAT_DECAY_AMOUNT ELSE 0)
        + (IF p.illness_type # "None" THEN STAT_DECAY_AMOUNT ELSE 0)
        + (IF p.poop_count > 0 THEN p.poop_count * 2 ELSE 0)
  IN [p EXCEPT !.hunger = hunger, !.energy = energy,
               !.happiness = Max(0, p.happiness - happiness_drain)]

\* the waste roll with the cap of line 234 left out
WasteRollUncapped(p, current_interval_time, u) ==
  LET after_meal == p.last_meal_timestamp > 0
                    /\ current_interval_time - p.last_meal_timestamp <= POOP_WINDOW_SECONDS
      poop_chance == IF after_meal THEN POOP_CHANCE_AFTER_MEAL ELSE POOP_CHANCE_BASE
  IN IF u < poop_chance
       THEN [p EXCEPT !.poop_count = p.poop_count + 1]
       ELSE p

\* lines 232-234: the waste roll of an awake tick ending at current_interval_time
WasteRoll(p, current_interval_time, u) ==
  LET after_meal == p.last_meal_timestamp > 0
                    /\ current_interval_time - p.last_meal_timestamp <= POOP_WINDOW_SECONDS
      poop_chance == IF after_meal THEN POOP_CHANCE_AFTER_MEAL ELSE POOP_CHANCE_BASE
  IN IF u < poop_chance /\ p.poop_count < MAX_POOP + 2
       THEN [p EXCEPT !.poop_count = p.poop_count + 1]
       ELSE p

\* lines 236-237: a tick asleep
SleepRegen(p, current_health) ==
  [p EXCEPT !.energy = Min(100, p.energy + ENERGY_REGEN_SLEEP),
            !.happiness = IF current_health > CRITICAL_HEALTH_THRESHOLD
                             /\ p.illness_type = "None"
                          THEN Min(100, p.happiness + HAPPINESS_REGEN_SLEEP)
                          ELSE p.happiness]

\* a health change that counts any waste at all as a mess
HealthChangeAnyWaste(p) ==
    (IF p.poop_count > 0 THEN -HEALTH_DECAY_POOP ELSE 0)
  + (IF p.hunger >= CRITICAL_HUNGER_THRESHOLD THEN -HEALTH_DECAY_HUNGER ELSE 0)
  + (IF p.illness_type = "Cold" THEN -2 ELSE 0)
  + (IF p.illness_type = "Stomachache" THEN -3 ELSE 0)
  + (IF p.poop_count = 0 /\ p.hunger < 50 /\ p.energy > 30 /\ p.awake
        /\ p.illness_type = "None"
     THEN HEALTH_REGEN_CLEAN_FED ELSE 0)

\* lines 239-244: health_change_this_interval
HealthChange(p) ==
    (IF p.poop_count >= MAX_POOP THEN -HEALTH_DECAY_POOP ELSE 0)
  + (IF p.hunger >= CRITICAL_HUNGER_THRESHOLD THEN -HEALTH_DECAY_HUNGER ELSE 0)
  + (IF p.illness_type = "Cold" THEN -2 ELSE 0)
  + (IF p.illness_type = "Stomachache" THEN -3 ELSE 0)
  + (IF p.poop_count = 0 /\ p.hunger < 50 /\ p.energy > 30 /\ p.awake
        /\ p.illness_type = "None"
     THEN HEALTH_REGEN_CLEAN_FED ELSE 0)

\* lines 247-251: illness onset, "Cold" tried first
IllnessOnset(p, current_health, r) ==
  IF p.illness_type = "None" /\ ~p.is_dead
  THEN IF current_health < 50 /\ r.cold < 5 THEN "Cold"
       ELSE IF p.hunger > 95 /\ r.stom < 10 THEN "Stomachache"
       ELSE "None"
  ELSE "None"

\* a tick whose waste roll comes before the happiness drain, so that the drain
\* counts this tick's waste
TickBodyWasteFirst(st, i, stage, clk, r) ==
  LET p0 == st.pet
      current_interval_time == p0.last_updated_timestamp + (i + 1) * UPDATE_INTERVAL_SECONDS
      current_health == p0.health
      p1 == [p0 EXCEPT !.discipline = Max(0, p0.discipline - Scaled(DISCIPLINE_DECAY, stage))]
      p2 == IF p1.awake
              THEN AwakeDecay(WasteRoll(p1, current_interval_time, r.poop), current_health, stage)
              ELSE SleepRegen(p1, current_health)
      change == HealthChange(p2)
      p3 == [p2 EXCEPT !.health = Max(0, Min(100, p2.health + change))]
      onset == IllnessOnset(p3, current_health, r)
      p4 == IF onset = "None" THEN p3
            ELSE AddEvent([p3 EXCEPT !.illness_type = onset], clk,
                          IF onset = "Cold" THEN "Caught a Cold" ELSE "Got a Stomachache",
                          "", 0)
      hmsg == IF change < 0 /\ st.health_change_msg = ""
                THEN (IF p4.poop_count >= MAX_POOP THEN "mess"
                      ELSE IF p4.hunger >= CRITICAL_HUNGER_THRESHOLD THEN "hunger"
                      ELSE "")
                ELSE st.health_change_msg
  IN [pet |-> p4, health_change_msg |-> hmsg,
      illness_msg |-> IF onset = "None" THEN st.illness_msg ELSE onset]

\* lines 217-255: the body of tick i after its death check.  st carries the pet
\* and the loop's locals health_change_msg and illness_msg.
TickBody(st, i, stage, clk, r) ==
  LET p0 == st.pet
      current_interval_time == p0.last_updated_timestamp + (i + 1) * UPDATE_INTERVAL_SECONDS
      current_health == p0.health
      p1 == [p0 EXCEPT !.discipline = Max(0, p0.discipline - Scaled(DISCIPLINE_DECAY, stage))]
      p2 == IF p1.awake
              THEN WasteRoll(AwakeDecay(p1, current_health, stage), current_interval_time, r.poop)
              ELSE SleepRegen(p1, current_health)
      change == HealthChange(p2)
      p3 == [p2 EXCEPT !.health = Max(0, Min(100, p2.health + change))]
      onset == IllnessOnset(p3, current_health, r)
      p4 == IF onset = "None" THEN p3
            ELSE AddEvent([p3 EXCEPT !.illness_type = onset], clk,
                          IF onset = "Cold" THEN "Caught a Cold" ELSE "Got a Stomachache",
                          "", 0)
      hmsg == IF change < 0 /\ st.health_change_msg = ""
                THEN (IF p4.poop_count >= MAX_POOP THEN "mess"
                      ELSE IF p4.hunger >= CRITICAL_HUNGER_THRESHOLD THEN "hunger"
                      ELSE "")
                ELSE st.health_change_msg
  IN [pet |-> p4, health_change_msg |-> hmsg,
      illness_msg |-> IF onset = "None" THEN st.illness_msg ELSE onset]

\* the end of update_needs with the advance of line 257 left out
FinishReplayStale(st, n, clk, u) ==
  LET p == st.pet
      q == [p EXCEPT !.last_needs_message =
                        [kind |-> IF n > 0 THEN "intervals" ELSE "",
                         n |-> IF n > 0 THEN n ELSE 0,
                         health |-> st.health_change_msg,
                         illness |-> st.illness_msg, reason |-> ""]]
  IN [pet |-> CheckDeath(q, clk, clk, u), ret |-> n > 0, n |-> n, ticks |-> n, died_at |-> -1]

\* the end of update_needs with line 257 setting the timestamp to the wall clock
FinishReplayNow(st, n, clk, u) ==
  LET p == st.pet
      q == [p EXCEPT !.last_updated_timestamp = clk,
                     !.last_needs_message =
                        [kind |-> IF n > 0 THEN "intervals" ELSE "",
                         n |-> IF n > 0 THEN n ELSE 0,
                         health |-> st.health_change_msg,
                         illness |-> st.illness_msg, reason |-> ""]]
  IN [pet |-> CheckDeath(q, clk, clk, u), ret |-> n > 0, n |-> n, ticks |-> n, died_at |-> -1]

\* the end of update_needs with the death check of line 262 left out
FinishReplayUnchecked(st, n, clk, u) ==
  LET p == st.pet
      needs_changed == n > 0
      q == [p EXCEPT !.last_updated_timestamp = p.last_updated_timestamp + n * UPDATE_INTERVAL_SECONDS,
                     !.last_needs_message =
                        [kind |-> IF needs_changed THEN "intervals" ELSE "",
                         n |-> IF needs_changed THEN n ELSE 0,
                         health |-> st.health_change_msg,
                         illness |-> st.illness_msg, reason |-> ""]]
  IN [pet |-> q, ret |-> needs_changed, n |-> n, ticks |-> n, died_at |-> -1]

\* lines 257-263: after the loop; needs_changed is true once a tick body has run
FinishReplay(st, n, clk, u) ==
  LET p == st.pet
      needs_changed == n > 0
      q == [p EXCEPT !.last_updated_timestamp = p.last_updated_timestamp + n * UPDATE_INTERVAL_SECONDS,
                     !.last_needs_message =
                        [kind |-> IF needs_changed THEN "intervals" ELSE "",
                         n |-> IF needs_changed THEN n ELSE 0,
                         health |-> st.health_change_msg,
                         illness |-> st.illness_msg, reason |-> ""]]
  IN [pet |-> CheckDeath(q, clk, clk, u), ret |-> needs_changed, n |-> n, ticks |-> n,
      died_at |-> -1]

\* the loop with the test of line 215 made after the tick body instead of before it
RECURSIVE ReplayLate(_, _, _, _, _, _)
ReplayLate(running, ended, i, n, stage, clk) ==
  IF running = {} THEN ended
  ELSE IF i = n
    THEN ended \cup { FinishReplay(st, n, clk, u) : st \in running, u \in Draws }
    ELSE
      LET checked == { [st EXCEPT !.pet =
                          CheckDeath(st.pet,
                                     st.pet.last_updated_timestamp + i * UPDATE_INTERVAL_SECONDS,
                                     clk, u)]
                       : st \in running, u \in Draws }
          after == UNION { { TickBody(st, i, stage, clk, r) : r \in TickRolls(st.pet) }
                           : st \in checked }
          died == { st \in after : st.pet.is_dead }
      IN ReplayLate(after \ died,
                    ended \cup { [pet |-> st.pet, ret |-> TRUE, n |-> n, ticks |-> i,
                                  died_at |-> i] : st \in died },
                    i + 1, n, stage, clk)

\* lines 213-263: the loop from tick i on.  running holds the loop states
\* (pet and locals) that the draws so far can have produced, ended the outcomes of
\* the draws after which a death check has already ended the call (line 215); once
\* every draw has ended the call, no tick is left to run.
RECURSIVE Replay(_, _, _, _, _, _)
Replay(running, ended, i, n, stage, clk) ==
  IF running = {} THEN ended
  ELSE IF i = n
    THEN ended \cup { FinishReplay(st, n, clk, u) : st \in running, u \in Draws }
    ELSE
      LET checked == { [st EXCEPT !.pet =
                          CheckDeath(st.pet,
                                     st.pet.last_updated_timestamp + i * UPDATE_INTERVAL_SECONDS,
                                     clk, u)]
                       : st \in running, u \in Draws }
          died == { st \in checked : st.pet.is_dead }
          alive == checked \ died
      IN Replay(UNION { { TickBody(st, i, stage, clk, r) : r \in TickRolls(st.pet) }
                        : st \in alive },
                ended \cup { [pet |-> st.pet, ret |-> TRUE, n |-> n, ticks |-> i, died_at |-> i]
                             : st \in died },
                i + 1, n, stage, clk)

\* intervals_passed (line 207)
IntervalsPassed(p, clk) == (clk - p.last_updated_timestamp) \div UPDATE_INTERVAL_SECONDS

\* Pet.update_needs with line 208 reading "intervals_passed < 0"
UpdateNeedsLoose(p, clk) ==
  LET n == IntervalsPassed(p, clk)
  IN IF p.is_dead
       THEN { [pet |-> p, ret |-> FALSE, n |-> 0, ticks |-> 0, died_at |-> -1] }
     ELSE IF n < 0
       THEN { [pet |-> p, ret |-> FALSE, n |-> n, ticks |-> 0, died_at |-> -1] }
     ELSE Replay({ [pet |-> p, health_change_msg |-> "", illness_msg |-> ""] }, {},
                 0, n, Stage(p, clk), clk)

\* Pet.update_needs at wall clock clk: the set of its outcomes
\* [pet, ret (the value returned), n (intervals_passed), ticks (tick bodies run),
\*  died_at (the tick whose death check ended the loop, or -1)]
UpdateNeeds(p, clk) ==
  LET n == IntervalsPassed(p, clk)
  IN IF p.is_dead
       THEN { [pet |-> p, ret |-> FALSE, n |-> 0, ticks |-> 0, died_at |-> -1] }
     ELSE IF n <= 0
       THEN { [pet |-> p, ret |-> FALSE, n |-> n, ticks |-> 0, died_at |-> -1] }
     ELSE Replay({ [pet |-> p, health_change_msg |-> "", illness_msg |-> ""] }, {},
                 0, n, Stage(p, clk), clk)

(* ------------------------------------------------------------------ *)
(* Action handlers.  Each yields [pet, msg, success, raised]: the pet   *)
(* afterwards, a tag for the message returned, the success flag, and    *)
(* whether the call ended in an exception instead of returning.         *)
(* ------------------------------------------------------------------ *)
Outcome(p, msg, success) == [pet |-> p, msg |-> msg, success |-> success, raised |-> FALSE]

Raised(p, error) == [pet |-> p, msg |-> error, success |-> FALSE, raised |-> TRUE]

\* Pet._should_refuse with draw u:  u/100 < refusal_base_chance + (100 - discipline)/DIVISOR
ShouldRefuse(p, u) ==
  LET refusal_base_chance == IF p.happiness < 20 THEN 30
                             ELSE IF p.energy < 15 THEN 20
                             ELSE 5
  IN u * REFUSAL_CHANCE_DIVISOR
       < refusal_base_chance * REFUSAL_CHANCE_DIVISOR + 100 * Max(0, 100 - p.discipline)

\* Pet.feed noting the meal time before it asks _should_refuse
FeedMealFirst(p, food_name, clk, u) ==
  IF ~p.awake THEN Outcome(p, "sleeping", FALSE)
  ELSE IF ShouldRefuse(p, u)
    THEN Outcome([p EXCEPT !.last_meal_timestamp = clk], "refused", FALSE)
  ELSE IF food_name \notin DOMAIN FOOD_ITEMS THEN Outcome(p, "unknown food", FALSE)
  ELSE IF p.illness_type = "Stomachache" THEN Outcome(p, "stomachache", FALSE)
  ELSE
    LET food == FOOD_ITEMS[food_name]
        hunger_decrease ==
          IF p.health < 40 THEN Max(1, food.hunger_restore \div 3)
          ELSE IF p.health < 70 THEN Max(1, (food.hunger_restore * 3) \div 4)
          ELSE food.hunger_restore
        happiness_increase ==
          IF p.health < 40 THEN Max(0, food.happiness_boost \div 2)
          ELSE food.happiness_boost
        q == [p EXCEPT !.hunger = Max(0, p.hunger - hunger_decrease),
                       !.happiness = Min(100, Max(0, p.happiness + happiness_increase)),
                       !.health = Min(100, Max(0, p.health + food.health_boost)),
                       !.weight = p.weight + food.weight_gain,
                       !.last_meal_timestamp = clk]
    IN Outcome(AddEvent(q, clk, "Ate", food_name, 0), "ate", TRUE)

\* Pet.feed eating slowly (line 288) at every health of 40 and above
FeedAlwaysSlow(p, food_name, clk, u) ==
  IF ~p.awake THEN Outcome(p, "sleeping", FALSE)
  ELSE IF ShouldRefuse(p, u) THEN Outcome(p, "refused", FALSE)
  ELSE IF food_name \notin DOMAIN FOOD_ITEMS THEN Outcome(p, "unknown food", FALSE)
  ELSE IF p.illness_type = "Stomachache" THEN Outcome(p, "stomachache", FALSE)
  ELSE
    LET food == FOOD_ITEMS[food_name]
        hunger_decrease ==
          IF p.health < 40 THEN Max(1, food.hunger_restore \div 3)
          ELSE Max(1, (food.hunger_restore * 3) \div 4)
        happiness_increase ==
          IF p.health < 40 THEN Max(0, food.happiness_boost \div 2)
          ELSE food.happiness_boost
        q == [p EXCEPT !.hunger = Max(0, p.hunger - hunger_decrease),
                       !.happiness = Min(100, Max(0, p.happiness + happiness_increase)),
                       !.health = Min(100, Max(0, p.health + food.health_boost)),
                       !.weight = p.weight + food.weight_gain,
                       !.last_meal_timestamp = clk]
    IN Outcome(AddEvent(q, clk, "Ate", food_name, 0), "ate", TRUE)

\* Pet.feed
Feed(p, food_name, clk, u) ==
  IF ~p.awake THEN Outcome(p, "sleeping", FALSE)
  ELSE IF ShouldRefuse(p, u) THEN Outcome(p, "refused", FALSE)
  ELSE IF food_name \notin DOMAIN FOOD_ITEMS THEN Outcome(p, "unknown food", FALSE)
  ELSE IF p.illness_type = "Stomachache" THEN Outcome(p, "stomachache", FALSE)
  ELSE
    LET food == FOOD_ITEMS[food_name]
        hunger_decrease ==
          IF p.health < 40 THEN Max(1, food.hunger_restore \div 3)
          ELSE IF p.health < 70 THEN Max(1, (food.hunger_restore * 3) \div 4)
          ELSE food.hunger_restore
        happiness_increase ==
          IF p.health < 40 THEN Max(0, food.happiness_boost \div 2)
          ELSE food.happiness_boost
        q == [p EXCEPT !.hunger = Max(0, p.hunger - hunger_decrease),
                       !.happiness = Min(100, Max(0, p.happiness + happiness_increase)),
                       !.health = Min(100, Max(0, p.health + food.health_boost)),
                       !.weight = p.weight + food.weight_gain,
                       !.last_meal_timestamp = clk]
    IN Outcome(AddEvent(q, clk, "Ate", food_name, 0), "ate", TRUE)

\* Pet.play_game: the name PLAY_ENERGY_COST read at line 301 is defined nowhere,
\* so a call that passes the checks of lines 297-300 ends in a NameError there.
PlayGame(p, game_type) ==
  IF ~p.awake THEN Outcome(p, "sleeping", FALSE)
  ELSE IF p.illness_type = "Cold" THEN Outcome(p, "has a cold", FALSE)
  ELSE IF p.health < 50 THEN Outcome(p, "too unwell", FALSE)
  ELSE IF p.hunger > 80 THEN Outcome(p, "too hungry", FALSE)
  ELSE Raised(p, "NameError")

\* Pet.attempt_sleep with the health test of line 355 left out
AttemptSleepAnyHealth(p, clk) ==
  IF ~p.awake THEN Outcome(p, "already sleeping", FALSE)
  ELSE IF p.hunger > MAX_HUNGER_TO_SLEEP THEN Outcome(p, "too hungry", FALSE)
  ELSE Outcome(AddEvent([p EXCEPT !.awake = FALSE], clk, "Went to sleep", "", 0),
               "goes to sleep", TRUE)

\* Pet.attempt_sleep
AttemptSleep(p, clk) ==
  IF ~p.awake THEN Outcome(p, "already sleeping", FALSE)
  ELSE IF p.hunger > MAX_HUNGER_TO_SLEEP THEN Outcome(p, "too hungry", FALSE)
  ELSE IF p.health < CRITICAL_HEALTH_THRESHOLD + 10 THEN Outcome(p, "too unwell", FALSE)
  ELSE Outcome(AddEvent([p EXCEPT !.awake = FALSE], clk, "Went to sleep", "", 0),
               "goes to sleep", TRUE)

\* Pet.wake: the set of its outcomes, one per outcome of the update_needs it calls
Wake(p, reason, clk) ==
  IF p.awake THEN { Outcome(p, "None", FALSE) }
  ELSE { Outcome(AddEvent(o.pet, clk, "Woke up",
                          IF reason = "None" THEN "Manually" ELSE reason, 0),
                 "wakes up", TRUE)
         : o \in UpdateNeeds([p EXCEPT !.awake = TRUE], clk) }

\* Pet.clean clearing the illness together with the waste
CleanCures(p, clk) ==
  IF p.poop_count = 0 THEN Outcome(p, "nothing to clean", FALSE)
  ELSE
    LET cleaned_count == p.poop_count
        happiness_increase == Min(15, cleaned_count * 3)
        q == [p EXCEPT !.poop_count = 0,
                       !.illness_type = "None",
                       !.happiness = Min(100, p.happiness + happiness_increase)]
    IN Outcome(AddEvent(q, clk, "Cleaned", "poops", cleaned_count), "cleaned", TRUE)

\* Pet.clean
Clean(p, clk) ==
  IF p.poop_count = 0 THEN Outcome(p, "nothing to clean", FALSE)
  ELSE
    LET cleaned_count == p.poop_count
        happiness_increase == Min(15, cleaned_count * 3)
        q == [p EXCEPT !.poop_count = 0,
                       !.happiness = Min(100, p.happiness + happiness_increase)]
    IN Outcome(AddEvent(q, clk, "Cleaned", "poops", cleaned_count), "cleaned", TRUE)

\* Pet.give_medicine bringing a pet back to life when it raises its health
GiveMedicineRevives(p, clk) ==
  LET illness_cured == p.illness_type # "None"
      health_boosted == p.health < 95
      p1 == IF illness_cured
              THEN [AddEvent(p, clk, "Cured", p.illness_type, 0) EXCEPT !.illness_type = "None"]
              ELSE p
      p2 == IF health_boosted
              THEN AddEvent([p1 EXCEPT !.health = Min(100, p1.health + MEDICINE_HEALTH_GAIN),
                                       !.is_dead = FALSE],
                            clk, "Took medicine for health", "", 0)
              ELSE p1
  IN IF ~illness_cured /\ ~health_boosted THEN Outcome(p, "no need", FALSE)
     ELSE Outcome([p2 EXCEPT !.happiness = Max(0, p2.happiness - 5)], "took medicine", TRUE)

\* Pet.give_medicine
GiveMedicine(p, clk) ==
  LET illness_cured == p.illness_type # "None"
      health_boosted == p.health < 95
      p1 == IF illness_cured
              THEN [AddEvent(p, clk, "Cured", p.illness_type, 0) EXCEPT !.illness_type = "None"]
              ELSE p
      p2 == IF health_boosted
              THEN AddEvent([p1 EXCEPT !.health = Min(100, p1.health + MEDICINE_HEALTH_GAIN)],
                            clk, "Took medicine for health", "", 0)
              ELSE p1
  IN IF ~illness_cured /\ ~health_boosted THEN Outcome(p, "no need", FALSE)
     ELSE Outcome([p2 EXCEPT !.happiness = Max(0, p2.happiness - 5)], "took medicine", TRUE)

\* a scold that does not look whether the pet is awake
ScoldAsleep(p, clk) ==
  Outcome(AddEvent([p EXCEPT !.discipline = Min(100, p.discipline + SCOLD_DISCIPLINE_GAIN),
                             !.happiness = Max(0, p.happiness - SCOLD_HAPPINESS_LOSS)],
                   clk, "Was scolded", "", 0),
          "scolded", TRUE)

\* Pet.scold
Scold(p, clk) ==
  IF ~p.awake THEN Outcome(p, "sleeping", FALSE)
  ELSE Outcome(AddEvent([p EXCEPT !.discipline = Min(100, p.discipline + SCOLD_DISCIPLINE_GAIN),
                                  !.happiness = Max(0, p.happiness - SCOLD_HAPPINESS_LOSS)],
                        clk, "Was scolded", "", 0),
               "scolded", TRUE)

\* available_tricks (line 392)
AvailableTricks == <<"dance", "sing", "fetch">>

InSeq(x, s) == \E k \in 1..Len(s) : s[k] = x

\* learnable_tricks (line 393)
LearnableTricks(p) == SelectSeq(AvailableTricks, LAMBDA t : ~InSeq(t, p.tricks_learned))

\* Pet.train with line 397 choosing among available_tricks
TrainAnyTrick(p, trick_to_learn, clk, choice, u) ==
  LET learnable_tricks == LearnableTricks(p)
  IN IF Stage(p, clk) = "Baby" THEN Outcome(p, "too young", FALSE)
     ELSE IF ~p.awake THEN Outcome(p, "sleeping", FALSE)
     ELSE IF p.energy < TRAIN_ENERGY_COST THEN Outcome(p, "too tired", FALSE)
     ELSE IF p.happiness < 40 THEN Outcome(p, "not happy enough", FALSE)
     ELSE IF Len(learnable_tricks) = 0 THEN Outcome(p, "knows all", FALSE)
     ELSE
       LET target_trick ==
             IF trick_to_learn # "None" /\ InSeq(trick_to_learn, learnable_tricks)
               THEN trick_to_learn
               ELSE AvailableTricks[((choice - 1) % Len(AvailableTricks)) + 1]
           \* u/100 < discipline/DISCIPLINE_FACTOR + happiness/HAPPINESS_FACTOR
           did_succeed ==
             u * TRAIN_SUCCESS_DISCIPLINE_FACTOR * TRAIN_SUCCESS_HAPPINESS_FACTOR
               < 100 * (p.discipline * TRAIN_SUCCESS_HAPPINESS_FACTOR
                        + p.happiness * TRAIN_SUCCESS_DISCIPLINE_FACTOR)
           discipline_change == IF did_succeed THEN TRAIN_DISCIPLINE_GAIN
                                ELSE TRAIN_FAILURE_DISCIPLINE_LOSS
           happiness_change == IF did_succeed THEN TRAIN_HAPPINESS_GAIN
                               ELSE TRAIN_FAILURE_HAPPINESS_LOSS
           p1 == IF did_succeed
                   THEN AddEvent([p EXCEPT !.tricks_learned = Append(p.tricks_learned, target_trick)],
                                 clk, "Learned trick", target_trick, 0)
                   ELSE AddEvent(p, clk, "Failed training", target_trick, 0)
           p2 == [p1 EXCEPT !.energy = Max(0, p1.energy - TRAIN_ENERGY_COST),
                            !.discipline = Min(100, Max(0, p1.discipline + discipline_change)),
                            !.happiness = Min(100, Max(0, p1.happiness + happiness_change))]
       IN Outcome(p2, IF did_succeed THEN "learned" ELSE "could not learn", TRUE)

\* Pet.train: choice is the index random.choice picks, u the draw of line 400
Train(p, trick_to_learn, clk, choice, u) ==
  LET learnable_tricks == LearnableTricks(p)
  IN IF Stage(p, clk) = "Baby" THEN Outcome(p, "too young", FALSE)
     ELSE IF ~p.awake THEN Outcome(p, "sleeping", FALSE)
     ELSE IF p.energy < TRAIN_ENERGY_COST THEN Outcome(p, "too tired", FALSE)
     ELSE IF p.happiness < 40 THEN Outcome(p, "not happy enough", FALSE)
     ELSE IF Len(learnable_tricks) = 0 THEN Outcome(p, "knows all", FALSE)
     ELSE
       LET target_trick ==
             IF trick_to_learn # "None" /\ InSeq(trick_to_learn, learnable_tricks)
               THEN trick_to_learn
               ELSE learnable_tricks[((choice - 1) % Len(learnable_tricks)) + 1]
           \* u/100 < discipline/DISCIPLINE_FACTOR + happiness/HAPPINESS_FACTOR
           did_succeed ==
             u * TRAIN_SUCCESS_DISCIPLINE_FACTOR * TRAIN_SUCCESS_HAPPINESS_FACTOR
               < 100 * (p.discipline * TRAIN_SUCCESS_HAPPINESS_FACTOR
                        + p.happiness * TRAIN_SUCCESS_DISCIPLINE_FACTOR)
           discipline_change == IF did_succeed THEN TRAIN_DISCIPLINE_GAIN
                                ELSE TRAIN_FAILURE_DISCIPLINE_LOSS
           happiness_change == IF did_succeed THEN TRAIN_HAPPINESS_GAIN
                               ELSE TRAIN_FAILURE_HAPPINESS_LOSS
           p1 == IF did_succeed
                   THEN AddEvent([p EXCEPT !.tricks_learned = Append(p.tricks_learned, target_trick)],
                                 clk, "Learned trick", target_trick, 0)
                   ELSE AddEvent(p, clk, "Failed training", target_trick, 0)
           p2 == [p1 EXCEPT !.energy = Max(0, p1.energy - TRAIN_ENERGY_COST),
                            !.discipline = Min(100, Max(0, p1.discipline + discipline_change)),
                            !.happiness = Min(100, Max(0, p1.happiness + happiness_change))]
       IN Outcome(p2, IF did_succeed THEN "learned" ELSE "could not learn", TRUE)

\* Pet.do_trick
DoTrick(p, trick_name, clk) ==
  IF ~p.awake THEN Outcome(p, "sleeping", FALSE)
  ELSE IF ~InSeq(trick_name, p.tricks_learned) THEN Outcome(p, "unknown trick", FALSE)
  ELSE IF p.energy < TRICK_ENERGY_COST THEN Outcome(p, "too tired", FALSE)
  ELSE IF trick_name \notin {"dance", "sing", "fetch"}
    THEN Outcome(p, "unknown trick logic", FALSE)
  ELSE
    LET happiness_boost == IF trick_name = "dance" THEN TRICK_DANCE_HAPPINESS_BOOST
                           ELSE IF trick_name = "sing" THEN TRICK_SING_HAPPINESS_BOOST
                           ELSE TRICK_FETCH_HAPPINESS_BOOST
        q == [p EXCEPT !.happiness = Min(100, p.happiness + happiness_boost),
                       !.energy = Max(0, p.energy - TRICK_ENERGY_COST)]
    IN Outcome(AddEvent(q, clk, "Performed trick", trick_name, 0), "performed", TRUE)

\* Pet.pet with the min(100, ...) of line 437 left out
PetPetUnclamped(p, clk) ==
  IF ~p.awake THEN Outcome(p, "sleeping", FALSE)
  ELSE Outcome(AddEvent([p EXCEPT !.happiness = p.happiness + PET_HAPPINESS_GAIN],
                        clk, "Got petted", "", 0),
               "petted", TRUE)

\* Pet.pet
PetPet(p, clk) ==
  IF ~p.awake THEN Outcome(p, "sleeping", FALSE)
  ELSE Outcome(AddEvent([p EXCEPT !.happiness = Min(100, p.happiness + PET_HAPPINESS_GAIN)],
                        clk, "Got petted", "", 0),
               "petted", TRUE)

(* ------------------------------------------------------------------ *)
(* Saving and loading: Pet.to_dict and Pet.from_dict                    *)
(* ------------------------------------------------------------------ *)
\* the keys of the dictionary to_dict returns (line 483)
SerializedFields ==
  { "name", "hunger", "happiness", "energy", "health", "discipline", "weight", "awake",
    "last_updated_timestamp", "birthday_timestamp", "poop_count", "last_meal_timestamp",
    "is_dead", "time_hunger_critical_start", "time_happiness_critical_start",
    "tricks_learned", "event_log", "illness_type" }

\* Pet.to_dict: _last_needs_message is not part of it
ToDict(p) == [key \in SerializedFields |-> p[key]]

\* data.get(key, default)
Get(data, key, default) == IF key \in DOMAIN data THEN data[key] ELSE default

\* deque(log_list, maxlen=EVENT_LOG_SIZE) keeps the last entries of the list
LastEntries(log_list) ==
  IF Len(log_list) > EVENT_LOG_SIZE
    THEN SubSeq(log_list, Len(log_list) - EVENT_LOG_SIZE + 1, Len(log_list))
    ELSE log_list

\* Pet.from_dict at wall clock clk: a pet made by __init__, its fields then taken from
\* data, and a dead pet put to sleep
FromDict(data, clk) ==
  LET default_birthday == Get(data, "last_updated_timestamp", clk)
      made == [NewPet(clk) EXCEPT !.name = Get(data, "name", "Critter")]
      loaded ==
        [made EXCEPT
           !.hunger = Get(data, "hunger", 50),
           !.happiness = Get(data, "happiness", 50),
           !.energy = Get(data, "energy", 100),
           !.health = Get(data, "health", 100),
           !.discipline = Get(data, "discipline", 50),
           !.weight = Get(data, "weight", 100),
           !.awake = Get(data, "awake", TRUE),
           !.last_updated_timestamp = Get(data, "last_updated_timestamp", clk),
           !.birthday_timestamp = Get(data, "birthday_timestamp", default_birthday),
           !.poop_count = Get(data, "poop_count", 0),
           !.last_meal_timestamp = Get(data, "last_meal_timestamp", 0),
           !.is_dead = Get(data, "is_dead", FALSE),
           !.time_hunger_critical_start = Get(data, "time_hunger_critical_start", 0),
           !.time_happiness_critical_start = Get(data, "time_happiness_critical_start", 0),
           !.tricks_learned = Get(data, "tricks_learned", <<>>),
           !.event_log = LastEntries(Get(data, "event_log", <<>>)),
           !.illness_type = Get(data, "illness_type", "None")]
  IN IF loaded.is_dead THEN [loaded EXCEPT !.awake = FALSE] ELSE loaded

(* ------------------------------------------------------------------ *)
(* The starting states: a new pet, and pets as a saved record holds     *)
(* them after earlier play (Pet.from_dict)                              *)
(* ------------------------------------------------------------------ *)
Days(d) == d * SECONDS_PER_DAY

\* a pet born age seconds before the run starts and last updated pending seconds before it
Saved(age, pending) ==
  [NewPet(StartClock - age) EXCEPT !.last_updated_timestamp = StartClock - pending]

FreshPet == Saved(0, 0)

BabyPet == Saved(100, 70)

ThrivingPet ==
  [Saved(Days(12), 40) EXCEPT !.hunger = 1, !.happiness = 98, !.health = 99,
                              !.discipline = 97, !.tricks_learned = <<"dance">>,
                              !.last_meal_timestamp = StartClock - 50]

NeglectedPet ==
  [Saved(Days(2), 65) EXCEPT !.hunger = 99, !.happiness = 1, !.energy = 1, !.health = 2,
                             !.discipline = 0, !.poop_count = 5]

SleepingPet ==
  [Saved(Days(6), 65) EXCEPT !.awake = FALSE, !.energy = 90, !.hunger = 60,
                             !.happiness = 97]

IllPet ==
  [Saved(Days(3), 35) EXCEPT !.illness_type = "Stomachache", !.health = 45, !.hunger = 96,
                             !.poop_count = 6, !.energy = 40]

SeniorPet ==
  [Saved(Days(22) + 100, 65) EXCEPT !.tricks_learned = <<"dance", "sing", "fetch">>,
                                    !.energy = 20, !.discipline = 100, !.happiness = 100]

StarvingPet ==
  [Saved(Days(7), 35) EXCEPT !.hunger = 100, !.health = 60,
                             !.time_hunger_critical_start = StartClock - 3700]

NearlyStarvedPet ==
  [Saved(Days(7), 35) EXCEPT !.hunger = 100, !.health = 80,
                             !.time_hunger_critical_start = StartClock - 3500]

DespairingPet ==
  [Saved(Days(7), 35) EXCEPT !.hunger = 100, !.happiness = 0, !.health = 60,
                             !.time_hunger_critical_start = StartClock - 3700,
                             !.time_happiness_critical_start = StartClock - 3650]

CollapsedPet ==
  [Saved(Days(7), 35) EXCEPT !.health = 0, !.happiness = 0,
                             !.time_happiness_critical_start = StartClock - 3700]

\* asleep since the program was closed some minutes ago, in despair for an hour
LongSleeper ==
  [Saved(Days(6), 400) EXCEPT !.awake = FALSE, !.energy = 10, !.hunger = 70,
                               !.happiness = 0,
                               !.time_happiness_critical_start = StartClock - 3900]

\* asleep and at hunger 100 for 48 ticks, each of which took HEALTH_DECAY_HUNGER from a
\* health of 100
FamishedPet ==
  [Saved(Days(7), 95) EXCEPT !.awake = FALSE, !.hunger = 100, !.happiness = 100,
                             !.discipline = 0,
                             !.health = 100 - 48 * HEALTH_DECAY_HUNGER,
                             !.time_hunger_critical_start =
                                StartClock - 95 - 48 * UPDATE_INTERVAL_SECONDS]

\* saved at 19 days of age and loaded 21 days later
ReturningPet ==
  [Saved(Days(40) + 1000, Days(21)) EXCEPT !.hunger = 60, !.energy = 70]

\* an old pet asleep in a mess that has begun to cost it its health
ConvalescentPet ==
  [Saved(Days(16), 25) EXCEPT !.awake = FALSE, !.energy = 42, !.hunger = 10,
                              !.health = 22, !.poop_count = 4]

DeadPet ==
  CheckDeath([NeglectedPet EXCEPT !.health = 0, !.illness_type = "Cold", !.poop_count = 2],
             StartClock - 65, StartClock - 60, 99)

InitPets == { FreshPet, BabyPet, ThrivingPet, NeglectedPet, SleepingPet, IllPet, SeniorPet,
              StarvingPet, NearlyStarvedPet, DespairingPet, CollapsedPet, LongSleeper,
              FamishedPet, ReturningPet, DeadPet }

(* ------------------------------------------------------------------ *)
(* The state machine: one action per operation on the pet               *)
(* ------------------------------------------------------------------ *)
\* the arguments the calls are tried with
FeedArgs == DOMAIN FOOD_ITEMS \cup {"pizza"}
GameArgs == {"None", "rps", "guess", "chess"}
TrainArgs == {"None", "sing", "fly"}
TrickArgs == {"dance", "fly"}

\* what the last step was: the call (and the one before it), its argument, and what
\* it returned
Call(name, arg, o) ==
  [name |-> name, prev |-> op.name, arg |-> arg, msg |-> o.msg, success |-> o.success,
   raised |-> o.raised, n |-> 0, ticks |-> 0, died_at |-> -1]

NoCall(name, prev) ==
  [name |-> name, prev |-> prev, arg |-> "", msg |-> "", success |-> FALSE, raised |-> FALSE,
   n |-> 0, ticks |-> 0, died_at |-> -1]

Init ==
  /\ pet \in InitPets
  /\ now = StartClock
  /\ op = NoCall("init", "")
  /\ steps = 0
  /\ created_lut = pet.last_updated_timestamp
  /\ saved = ToDict(pet)

Step == /\ steps < MaxSteps
        /\ steps' = steps + 1
        /\ UNCHANGED created_lut

Handled(name, arg, o) ==
  /\ Step
  /\ pet' = o.pet
  /\ op' = Call(name, arg, o)
  /\ UNCHANGED <<now, saved>>

\* time.time() moves between two calls
AdvanceClock ==
  \E d \in ClockMoves :
    /\ Step
    /\ now' = now + d
    /\ op' = NoCall("clock", op.name)
    /\ UNCHANGED <<pet, saved>>

CallUpdateNeeds ==
  \E o \in UpdateNeeds(pet, now) :
    /\ Step
    /\ pet' = o.pet
    /\ op' = [NoCall("update_needs", op.name) EXCEPT !.success = o.ret, !.n = o.n,
                                            !.ticks = o.ticks, !.died_at = o.died_at]
    /\ UNCHANGED <<now, saved>>

CallFeed == \E food_name \in FeedArgs, u \in Draws :
              Handled("feed", food_name, Feed(pet, food_name, now, u))

CallPlayGame == \E game_type \in GameArgs :
                  Handled("play_game", game_type, PlayGame(pet, game_type))

CallAttemptSleep == Handled("attempt_sleep", "", AttemptSleep(pet, now))

CallWake == \E o \in Wake(pet, "None", now) : Handled("wake", "None", o)

CallClean == Handled("clean", "", Clean(pet, now))

CallGiveMedicine == Handled("give_medicine", "", GiveMedicine(pet, now))

CallScold == Handled("scold", "", Scold(pet, now))

CallTrain == \E trick_to_learn \in TrainArgs, choice \in 1..Len(AvailableTricks), u \in Draws :
               Handled("train", trick_to_learn, Train(pet, trick_to_learn, now, choice, u))

CallDoTrick == \E trick_name \in TrickArgs :
                 Handled("do_trick", trick_name, DoTrick(pet, trick_name, now))

CallPet == Handled("pet", "", PetPet(pet, now))

Next ==
  \/ AdvanceClock
  \/ CallUpdateNeeds
  \/ CallFeed
  \/ CallPlayGame
  \/ CallAttemptSleep
  \/ CallWake
  \/ CallClean
  \/ CallGiveMedicine
  \/ CallScold
  \/ CallTrain
  \/ CallDoTrick
  \/ CallPet

Spec == Init /\ [][Next]_vars

(* ------------------------------------------------------------------ *)
(* The program: load_pet, the main loop and the game-over block.  saved *)
(* is the content of the save file.                                     *)
(* ------------------------------------------------------------------ *)
\* load_pet at wall clock clk (lines 495-500): the pets it can return
LoadPet(data, clk) ==
  LET loaded_pet == FromDict(data, clk)
  IN IF loaded_pet.is_dead THEN { loaded_pet }
     ELSE { o.pet : o \in UpdateNeeds(loaded_pet, clk) }

\* wake_reason (lines 531-534)
WakeReason(p) ==
  IF p.energy >= AUTO_WAKE_ENERGY_THRESHOLD THEN "fully rested"
  ELSE IF p.hunger > CRITICAL_HUNGER_THRESHOLD THEN "critically hungry"
  ELSE IF p.health < CRITICAL_HEALTH_THRESHOLD + 5 THEN "critically unhealthy"
  ELSE "None"

\* lines 529-535: the automatic sleep or wake at the top of an iteration
AutoAction(p, clk) ==
  IF p.awake /\ p.energy < AUTO_SLEEP_ENERGY_THRESHOLD THEN { AttemptSleep(p, clk) }
  ELSE IF ~p.awake /\ WakeReason(p) # "None" THEN Wake(p, WakeReason(p), clk)
  ELSE { Outcome(p, "None", FALSE) }

\* the commands tried, with their arguments ("None": no argument typed)
Commands == { "feed", "play", "sleep", "wake", "clean", "medicine", "scold", "train",
              "trick", "pet", "log" }

CommandArgs(command) ==
  IF command = "feed" THEN {"None", "cake", "vitamins", "pizza"}
  ELSE IF command = "play" THEN {"None", "rps"}
  ELSE IF command = "trick" THEN {"None", "dance"}
  ELSE {"None"}

\* lines 567-589 for a command other than quit: the outcomes of the handler called
Dispatch(p, command, arg, clk) ==
  IF command = "feed"
    THEN IF arg = "None" THEN { Outcome(p, "usage", FALSE) }
         ELSE { Feed(p, arg, clk, u) : u \in Draws }
  ELSE IF command = "play" THEN { PlayGame(p, arg) }
  ELSE IF command = "sleep" THEN { AttemptSleep(p, clk) }
  ELSE IF command = "wake" THEN Wake(p, "None", clk)
  ELSE IF command = "clean" THEN { Clean(p, clk) }
  ELSE IF command = "medicine" THEN { GiveMedicine(p, clk) }
  ELSE IF command = "scold" THEN { Scold(p, clk) }
  ELSE IF command = "train"
    THEN { Train(p, "None", clk, choice, u) : choice \in 1..Len(AvailableTricks), u \in Draws }
  ELSE IF command = "trick"
    THEN IF arg = "None" THEN { Outcome(p, "usage", FALSE) }
         ELSE { DoTrick(p, arg, clk) }
  ELSE IF command = "pet" THEN { PetPet(p, clk) }
  ELSE { Outcome(p, "", FALSE) }

\* what one iteration of the loop leaves: the pet, the save file, how the iteration
\* ended ("died": break at line 538; "auto": continue at line 560; "quit": saved and
\* left; "crashed": an exception ended the program; else the command handled)
Turned(p, file, how, command) == [pet |-> p, saved |-> file, how |-> how, command |-> command]

\* lines 537-589, after the automatic action a: update_needs, then a command
AfterAuto(a, file, clk) ==
  UNION { IF o.pet.is_dead THEN { Turned(o.pet, file, "died", "") }
          ELSE
            \* get_needs_update_message (line 539) empties the message
            LET q == [o.pet EXCEPT !.last_needs_message = NoMessage]
            IN IF a.success THEN { Turned(q, file, "auto", "") }
               ELSE { Turned(q, ToDict(q), "quit", "quit") }
                    \cup UNION { UNION { { IF h.raised
                                             THEN Turned(q, file, "crashed", command)
                                             ELSE Turned(h.pet, file, "handled", command)
                                           : h \in Dispatch(q, command, arg, clk) }
                                         : arg \in CommandArgs(command) }
                                 : command \in Commands }
          : o \in UpdateNeeds(a.pet, clk) }

\* one iteration of the while loop (lines 526-589) on a living pet, entered when the
\* wall clock has moved by d since the one before
LoopTurn ==
  /\ ~pet.is_dead
  /\ \E d \in ClockMoves :
       \E a \in AutoAction(pet, now + d) :
         \E r \in AfterAuto(a, saved, now + d) :
           /\ Step
           /\ now' = now + d
           /\ op' = [NoCall("loop", op.name) EXCEPT !.arg = r.command, !.msg = r.how]
           /\ saved' = r.saved
           \* after quit or a crash the program is run again: load_pet
           /\ IF r.how \in {"quit", "crashed"}
                THEN pet' \in LoadPet(r.saved, now')
                ELSE pet' = r.pet

\* lines 592-600, the answer is not yes: the program ends, and is run again
GameOverDecline ==
  /\ pet.is_dead
  /\ Step
  /\ pet' \in LoadPet(saved, now)
  /\ op' = [NoCall("game_over", op.name) EXCEPT !.arg = "no"]
  /\ UNCHANGED <<now, saved>>

\* lines 592-598, the answer is yes: the save file is replaced by that of a new pet,
\* and the program is run again
GameOverReset ==
  /\ pet.is_dead
  /\ Step
  /\ saved' = ToDict(NewPet(now))
  /\ pet' \in LoadPet(saved', now)
  /\ op' = [NoCall("game_over", op.name) EXCEPT !.arg = "yes"]
  /\ UNCHANGED now

\* the save files the program is started on
SavedPets == InitPets \cup { ConvalescentPet }

\* the program started on a save file
MainInit ==
  /\ \E p \in SavedPets : saved = ToDict(p)
  /\ now = StartClock
  /\ pet \in LoadPet(saved, now)
  /\ op = NoCall("init", "")
  /\ steps = 0
  /\ created_lut = pet.last_updated_timestamp

MainNext ==
  \/ LoopTurn
  \/ GameOverDecline
  \/ GameOverReset

MainSpec == MainInit /\ [][MainNext]_vars

(* ------------------------------------------------------------------ *)
(* Properties                                                           *)
(* ------------------------------------------------------------------ *)
HandlerNames == {"feed", "play_game", "attempt_sleep", "wake", "clean", "give_medicine",
                 "scold", "train", "do_trick", "pet"}

\* this step is a call of the named operation
Calls(name) == steps' = steps + 1 /\ op'.name = name

CallsHandler == steps' = steps + 1 /\ op'.name \in HandlerNames

InRange(x) == x >= 0 /\ x <= 100

\* C1: hunger, happiness, energy, health and discipline lie in [0,100] after every
\* sequence of handler calls and update_needs calls from a state where they do.
C1_StatsInRange ==
  /\ InRange(pet.hunger)
  /\ InRange(pet.happiness)
  /\ InRange(pet.energy)
  /\ InRange(pet.health)
  /\ InRange(pet.discipline)

\* a handler has raised a stat that was within its gain of 100, and a replay has
\* lowered one to 0
C1_Witness ==
  \/ op.name = "pet" /\ op.success /\ pet.happiness = 100
  \/ op.name = "update_needs" /\ op.success /\ pet.energy = 0

\* C2 (as claimed): once is_dead holds, every handler and update_needs leaves the pet
\* as it was, and no handler reports success.
C2_DeadPetIsFrozen ==
  [][ (pet.is_dead /\ steps' = steps + 1 /\ op'.name \in HandlerNames \cup {"update_needs"})
        => (pet' = pet /\ ~op'.success) ]_vars

\* C3: a handler that returns success = false has changed no field of the pet.
C3_FailureChangesNothing ==
  [][ (CallsHandler /\ ~op'.success /\ ~op'.raised) => pet' = pet ]_vars

\* feed and train turned down a pet that was awake: a refusal, an unknown food
C3_Witness ==
  /\ pet.awake
  /\ ~op.success /\ ~op.raised
  /\ \/ op.name = "feed" /\ op.msg = "refused"
     \/ op.name = "feed" /\ op.msg = "unknown food"
     \/ op.name = "train" /\ op.msg = "too tired"

\* C4: update_needs called again at the same wall clock changes nothing and returns
\* False, whatever the first call did.
C4_ReplayIdempotent ==
  [][ (op.name = "update_needs" /\ Calls("update_needs") /\ now' = now)
        => (pet' = pet /\ ~op'.success) ]_vars

\* the second of two calls, the first of which replayed ticks
C4_Witness ==
  /\ op.name = "update_needs" /\ op.prev = "update_needs"
  /\ pet.last_needs_message.kind = "intervals"
  /\ pet.last_updated_timestamp > created_lut

\* C5: last_updated_timestamp never decreases and stays a whole number of update
\* intervals at or after its value at creation or load.
C5_LastUpdatedMonotone ==
  [][ /\ pet'.last_updated_timestamp >= pet.last_updated_timestamp
      /\ pet'.last_updated_timestamp >= created_lut
      /\ (pet'.last_updated_timestamp - created_lut) % UPDATE_INTERVAL_SECONDS = 0 ]_vars

\* a replay has advanced the timestamp and the wall clock is past it by part of an interval
C5_Witness ==
  /\ op.name = "update_needs"
  /\ pet.last_updated_timestamp > created_lut
  /\ now > pet.last_updated_timestamp

\* C6 (as claimed): update_needs leaves last_updated_timestamp at its value before the
\* call plus one interval per tick whose effects it applied.
C6_OneIntervalPerTick ==
  [][ Calls("update_needs")
        => pet'.last_updated_timestamp
             = pet.last_updated_timestamp + op'.ticks * UPDATE_INTERVAL_SECONDS ]_vars

\* C7: with intervals_passed <= 0, also when the wall clock is behind
\* last_updated_timestamp, update_needs changes no field and returns False.
C7_NoIntervalNoChange ==
  [][ (Calls("update_needs") /\ IntervalsPassed(pet, now) <= 0)
        => (pet' = pet /\ ~op'.success) ]_vars

\* update_needs was called on a living pet with the clock behind its timestamp
C7_Witness ==
  /\ op.name = "update_needs" /\ ~pet.is_dead
  /\ op.n < 0 /\ now < pet.last_updated_timestamp

\* C8: is_dead never goes from true back to false.
C8_DeathIsPermanent ==
  [][ pet.is_dead => pet'.is_dead ]_vars

\* a handler has succeeded on a dead pet, which is still dead
C8_Witness ==
  /\ pet.is_dead
  /\ op.name \in {"give_medicine", "wake", "clean"} /\ op.success

\* the pet after k ticks of decay, as far as the draws do not decide it
AfterTicks(p, q, k, clk) ==
  LET stage == Stage(p, clk)
  IN /\ q.discipline = Max(0, p.discipline - k * Scaled(DISCIPLINE_DECAY, stage))
     /\ q.poop_count <= p.poop_count + k
     /\ IF p.awake
          THEN /\ q.hunger = Min(100, p.hunger + k * Scaled(STAT_DECAY_AMOUNT, stage))
               /\ q.energy = Max(0, p.energy - k * Scaled(ENERGY_DECAY_AWAKE, stage))
          ELSE /\ q.hunger = p.hunger
               /\ q.energy = Min(100, p.energy + k * ENERGY_REGEN_SLEEP)
               /\ q.poop_count = p.poop_count

\* C9: when the death check at the start of tick i of a replay sets is_dead, the pet
\* returned is dead, not awake, and carries the decay of the i ticks before it only.
C9_DeathStopsReplay ==
  [][ (Calls("update_needs") /\ op'.died_at >= 0)
        => /\ pet'.is_dead /\ ~pet'.awake
           /\ op'.ticks = op'.died_at
           /\ AfterTicks(pet, pet', op'.died_at, now) ]_vars

\* a replay of n ticks ended by the death check of a tick after the first
C9_Witness ==
  /\ op.name = "update_needs" /\ pet.is_dead
  /\ op.died_at >= 1 /\ op.n > op.died_at

Dies == ~pet.is_dead /\ pet'.is_dead

\* no waste roll and no illness roll of this step has succeeded
NoRollSucceeded ==
  /\ pet'.poop_count = pet.poop_count
  /\ pet'.illness_type = pet.illness_type

C12_HungerClockRestarts ==
  [][ /\ (pet.hunger < 100 /\ pet'.hunger >= 100)
          => \/ pet'.time_hunger_critical_start = 0
             \/ pet'.time_hunger_critical_start > pet.last_updated_timestamp
      /\ (Dies /\ pet'.last_needs_message.reason = "starved")
          => /\ pet'.hunger >= 100
             /\ pet'.time_hunger_critical_start # 0
             /\ now - pet'.time_hunger_critical_start > MAX_TIME_CRITICAL_SECONDS
             /\ pet.hunger < 100
                  => pet'.time_hunger_critical_start > pet.last_updated_timestamp ]_vars

\* a pet that had been at hunger 100 for over an hour was fed, and the next replay took
\* its hunger back to 100: it lives, and its hunger timestamp is that of this replay
C12_Witness ==
  /\ op.name = "update_needs" /\ op.prev = "feed"
  /\ pet.last_meal_timestamp = now
  /\ pet.hunger = 100 /\ ~pet.is_dead
  /\ pet.time_hunger_critical_start = now
  /\ created_lut = StarvingPet.last_updated_timestamp

\* C13 (as claimed): the happiness timestamp is kept for happiness 0 under the conditions
\* under which the hunger timestamp is kept for hunger 100: after a call that
\* evaluated the death conditions, each timestamp is set if and only if its stat is
\* at its critical value.
C13_TimestampsKeptAlike ==
  (op.name = "update_needs" /\ op.n > 0)
    => /\ (pet.happiness <= 0) <=> (pet.time_happiness_critical_start # 0)
       /\ (pet.hunger >= 100) <=> (pet.time_hunger_critical_start # 0)

\* C14 (as claimed): the death check of a replayed tick does not record an old-age death
\* when the tick's simulated time, last_updated_timestamp + i * interval, is no more
\* than MAX_AGE_DAYS days after the birthday.
C14_OldAgeBySimulatedTime ==
  [][ ( /\ Calls("update_needs") /\ Dies /\ op'.died_at >= 0
        /\ pet'.last_needs_message.reason = "passed away peacefully from old age" )
        => (pet.last_updated_timestamp + op'.died_at * UPDATE_INTERVAL_SECONDS)
              - pet.birthday_timestamp > MAX_AGE_DAYS * SECONDS_PER_DAY ]_vars

\* the simulated times of the ticks a call of update_needs would replay now
PendingTickTimes ==
  { pet.last_updated_timestamp + (i + 1) * UPDATE_INTERVAL_SECONDS
    : i \in 0 .. (IntervalsPassed(pet, now) - 1) }

\* C15 (as claimed): the waste roll of an awake tick uses the after-meal chance exactly
\* when the tick's simulated time lies within POOP_WINDOW_SECONDS after the last
\* meal, and the base chance otherwise: a draw between the two chances adds waste in
\* the first case only.
C15_WasteChanceByWindow ==
  (pet.awake /\ ~pet.is_dead /\ pet.poop_count < MAX_POOP + 2)
    => \A current_interval_time \in PendingTickTimes :
         LET since_meal == current_interval_time - pet.last_meal_timestamp
             in_window == /\ pet.last_meal_timestamp > 0
                          /\ since_meal >= 0
                          /\ since_meal <= POOP_WINDOW_SECONDS
         IN \A u \in Draws :
              (WasteRoll(pet, current_interval_time, u).poop_count > pet.poop_count)
                <=> (u < (IF in_window THEN POOP_CHANCE_AFTER_MEAL ELSE POOP_CHANCE_BASE))

\* C16 (as claimed): every handler call, in any reachable state and with any argument,
\* returns a (message, success) pair; none ends in an unhandled error.
C16_HandlersReturn ==
  op.name \in HandlerNames => ~op.raised

\* the arguments that name no food, no game, no trick on offer and no learned trick
UnknownItem ==
  \/ op'.name = "feed" /\ op'.arg \notin DOMAIN FOOD_ITEMS
  \/ op'.name = "play_game" /\ op'.arg \notin {"None", "rps", "guess"}
  \/ op'.name = "train" /\ op'.arg # "None" /\ ~InSeq(op'.arg, AvailableTricks)
  \/ op'.name = "do_trick" /\ ~InSeq(op'.arg, pet.tricks_learned)

\* C17 (as claimed): feed, play_game, train and do_trick called with an unknown item
\* return success = false and change no field of the pet.
C17_UnknownItemRejected ==
  [][ (CallsHandler /\ UnknownItem)
        => (~op'.raised /\ ~op'.success /\ pet' = pet) ]_vars

\* C18: a feed that succeeds on an awake pet of health 100 lowers hunger by the food's
\* hunger_restore down to 0 at least, adds its weight_gain to weight, changes
\* happiness and health by its boosts within [0,100], and sets last_meal_timestamp to
\* the current time.
C18_FeedAppliesFood ==
  [][ (Calls("feed") /\ op'.success /\ pet.awake /\ pet.health = 100)
        => LET food == FOOD_ITEMS[op'.arg]
           IN /\ pet'.hunger = Max(0, pet.hunger - food.hunger_restore)
              /\ pet'.weight = pet.weight + food.weight_gain
              /\ pet'.happiness = Min(100, Max(0, pet.happiness + food.happiness_boost))
              /\ pet'.health = Min(100, Max(0, pet.health + food.health_boost))
              /\ pet'.last_meal_timestamp = now ]_vars

\* a new pet has eaten a cake, or vitamins that could not raise its health
C18_Witness ==
  /\ op.name = "feed" /\ op.success /\ op.prev = "init"
  /\ pet.birthday_timestamp = StartClock
  /\ pet.last_meal_timestamp = now
  /\ \/ op.arg = "cake" /\ pet.hunger = 25 /\ pet.health = 98 /\ pet.weight = 120
     \/ op.arg = "vitamins" /\ pet.hunger = 48 /\ pet.health = 100 /\ pet.weight = 101

\* C19 (as claimed): from_dict(to_dict(p)) has the value p has in every serialized field,
\* for every reachable pet p.
C19_RoundTrip ==
  \A key \in SerializedFields : FromDict(ToDict(pet), now)[key] = pet[key]

\* C20: attempt_sleep on an awake pet is refused exactly when hunger is above
\* MAX_HUNGER_TO_SLEEP or health is below CRITICAL_HEALTH_THRESHOLD + 10; a refusal
\* changes nothing, and otherwise the call succeeds, sets awake to false and changes
\* no stat.
C20_SleepRefusedWhenUnfit ==
  [][ (Calls("attempt_sleep") /\ pet.awake)
        => LET unfit == \/ pet.hunger > MAX_HUNGER_TO_SLEEP
                        \/ pet.health < CRITICAL_HEALTH_THRESHOLD + 10
           IN /\ ~op'.raised
              /\ op'.success <=> ~unfit
              /\ unfit => pet' = pet
              /\ ~unfit => /\ ~pet'.awake
                           /\ [pet' EXCEPT !.event_log = pet.event_log]
                                = [pet EXCEPT !.awake = FALSE] ]_vars

\* a pet that was not hungry was refused for its health, and a fit one went to sleep
C20_Witness ==
  /\ op.name = "attempt_sleep"
  /\ \/ op.msg = "too unwell" /\ pet.awake /\ pet.hunger <= MAX_HUNGER_TO_SLEEP
     \/ op.msg = "goes to sleep" /\ ~pet.awake /\ ~pet.is_dead

\* C21: an illness stays the same through every tick and handler call until a
\* give_medicine that succeeds, the only operation that clears it; no other illness
\* takes its place.
C21_IllnessPersists ==
  [][ pet.illness_type # "None"
        => \/ pet'.illness_type = pet.illness_type
           \/ /\ Calls("give_medicine") /\ op'.success
              /\ pet'.illness_type = "None" ]_vars

\* a pet with a stomachache and a health under 50, at which a healthy pet may catch a
\* cold, has been through a tick and has its stomachache still; its log shows no onset
C21_Witness ==
  /\ op.name = "update_needs" /\ op.ticks >= 1
  /\ pet.illness_type = "Stomachache" /\ pet.health < 50 /\ ~pet.is_dead
  /\ Len(pet.event_log) = 1

\* the ticks a call can have run: those update_needs reports, and for wake, which
\* calls update_needs, the intervals that had passed
TicksOfStep ==
  IF op'.name = "update_needs" THEN op'.ticks
  ELSE IF op'.name = "wake" /\ op'.success THEN Max(0, IntervalsPassed(pet, now))
  ELSE 0

\* C22: poop_count stays within 0 .. MAX_POOP + 2; it rises by at most one per tick and
\* in awake ticks only, and it falls in a clean only, to 0.
C22_PoopCountBounded ==
  [][ /\ pet'.poop_count >= 0 /\ pet'.poop_count <= MAX_POOP + 2
      /\ pet'.poop_count > pet.poop_count
           => /\ pet'.poop_count - pet.poop_count <= TicksOfStep
              /\ \/ Calls("update_needs") /\ pet.awake
                 \/ Calls("wake")
      /\ pet'.poop_count < pet.poop_count
           => (Calls("clean") /\ op'.success /\ pet'.poop_count = 0) ]_vars

\* an awake pet whose count was at the cap has been through a tick, waste roll
\* included, and the count is at the cap still
C22_Witness ==
  /\ op.name = "update_needs" /\ op.ticks >= 1
  /\ pet.awake /\ pet.illness_type = "Stomachache"
  /\ pet.poop_count = MAX_POOP + 2

NoDuplicate(s) == \A j, k \in 1..Len(s) : s[j] = s[k] => j = k

\* C23: tricks_learned only grows, by one trick per train call at most, a trick of
\* dance, sing and fetch that was not learned yet; it holds no trick twice and at
\* most three.
C23_TricksOnlyGrow ==
  [][ /\ \/ pet'.tricks_learned = pet.tricks_learned
         \/ /\ Calls("train") /\ op'.success
            /\ \E t \in {"dance", "sing", "fetch"} :
                  /\ ~InSeq(t, pet.tricks_learned)
                  /\ pet'.tricks_learned = Append(pet.tricks_learned, t)
      /\ NoDuplicate(pet'.tricks_learned)
      /\ Len(pet'.tricks_learned) <= 3 ]_vars

\* a pet that knew one trick has learned a second one in a train call
C23_Witness ==
  /\ op.name = "train" /\ op.msg = "learned"
  /\ Len(pet.tricks_learned) = 2
  /\ pet.tricks_learned[1] = "dance"

\* C24: weight never decreases, and it changes only in a feed that succeeds, by the
\* weight gain of the food eaten; ticks and the other handlers leave it as it is.
C24_WeightOnlyFed ==
  [][ \/ pet'.weight = pet.weight
      \/ /\ Calls("feed") /\ op'.success
         /\ op'.arg \in DOMAIN FOOD_ITEMS
         /\ pet'.weight = pet.weight + FOOD_ITEMS[op'.arg].weight_gain
         /\ pet'.weight > pet.weight ]_vars

\* a pet that has eaten has been through awake ticks and has the weight it ate itself to
C24_Witness ==
  /\ op.name = "update_needs" /\ op.prev = "feed" /\ op.ticks >= 1
  /\ pet.last_meal_timestamp = now
  /\ pet.weight > 100

\* C25 (as claimed): wake on a sleeping, living pet after k >= 1 whole ticks replays
\* those k ticks by the asleep rules: energy regenerates, hunger and waste stay.
C25_SleptTicksReplayedAsleep ==
  [][ ( /\ Calls("wake") /\ ~pet.awake /\ ~pet.is_dead /\ ~pet'.is_dead
        /\ IntervalsPassed(pet, now) >= 1 )
        => /\ pet'.hunger = pet.hunger
           /\ pet'.poop_count = pet.poop_count
           /\ pet'.energy = Min(100, pet.energy
                                      + IntervalsPassed(pet, now) * ENERGY_REGEN_SLEEP) ]_vars

\* C26 (as claimed): in every reachable state a dead pet is not awake.
C26_DeadPetNotAwake ==
  pet.is_dead => ~pet.awake

\* C27 (as claimed): a pet that has died in an iteration of the main loop is not loaded
\* alive by a later run of the program; only the reset the user confirms replaces it.
C27_DeathSurvivesRestart ==
  [][ ( /\ pet.is_dead /\ op.name = "loop"
        /\ pet'.name = pet.name
        /\ pet'.birthday_timestamp = pet.birthday_timestamp )
        => pet'.is_dead ]_vars

\* C28: after an update_needs call that ran at least one tick, no living pet has a
\* health of 0 or less: the check of the next tick or the one after the loop has
\* recorded the death.
C28_NoLivingPetWithoutHealth ==
  [][ (Calls("update_needs") /\ op'.ticks >= 1 /\ pet'.health <= 0)
        => pet'.is_dead ]_vars

\* the last tick of a replay took the health to 0, and the check after the loop
\* recorded the death
C28_Witness ==
  /\ op.name = "update_needs" /\ op.ticks >= 1 /\ op.died_at = -1
  /\ pet.health = 0 /\ pet.is_dead
  /\ pet.last_needs_message.reason = "succumbed to poor health"

\* what C29 compares: the stats, the waste count, the illness, the two critical
\* timestamps, liveness and last_updated_timestamp
ReplayResult(p) ==
  [ hunger |-> p.hunger, happiness |-> p.happiness, energy |-> p.energy,
    health |-> p.health, discipline |-> p.discipline, weight |-> p.weight,
    poop_count |-> p.poop_count, illness_type |-> p.illness_type,
    time_hunger_critical_start |-> p.time_hunger_critical_start,
    time_happiness_critical_start |-> p.time_happiness_critical_start,
    is_dead |-> p.is_dead, last_updated_timestamp |-> p.last_updated_timestamp ]

\* the results of update_needs at clock clk, over all draws
ResultsAt(p, clk) == { ReplayResult(o.pet) : o \in UpdateNeeds(p, clk) }

\* C29 (as claimed): for a pet that no old-age draw can kill and whose stage stays the
\* same, update_needs over a gap of a + b whole ticks gives, draw for draw, what
\* update_needs over a ticks followed by update_needs over the other b ticks gives:
\* the two have the same results over all draws.  Checked for a = b = 1.
C29_ReplaySplitsAlike ==
  LET middle == pet.last_updated_timestamp + UPDATE_INTERVAL_SECONDS
      end == pet.last_updated_timestamp + 2 * UPDATE_INTERVAL_SECONDS
  IN (~pet.is_dead /\ AgeInDays(pet, end) <= MAX_AGE_DAYS
        /\ Stage(pet, middle) = Stage(pet, end))
       => ResultsAt(pet, end)
            = UNION { ResultsAt(o.pet, end) : o \in UpdateNeeds(pet, middle) }

\* the penalties an awake tick takes off the happiness, from the pet at the start
\* of the tick and the hunger and energy the tick has just set
Penalties(before, hunger, energy, stage) ==
    Scaled(STAT_DECAY_AMOUNT, stage)
  + (IF hunger > 75 THEN STAT_DECAY_AMOUNT \div 2 ELSE 0)
  + (IF energy < 25 THEN STAT_DECAY_AMOUNT \div 2 ELSE 0)
  + (IF before.health < 50 THEN STAT_DECAY_AMOUNT ELSE 0)
  + (IF before.illness_type # "None" THEN STAT_DECAY_AMOUNT ELSE 0)
  + 2 * before.poop_count

\* C30: in an awake tick the happiness penalties are summed and clamped once: the
\* new happiness is max(0, happiness - (base decay + hunger penalty if the updated
\* hunger > 75 + energy penalty if the updated energy < 25 + health penalty if the
\* health at the start of the tick < 50 + illness penalty if ill + 2 x poop_count
\* before the tick's waste roll)).  Checked on the update_needs calls that run one
\* tick, where the states before and after the call are those around the tick.
C30_PenaltiesSummedThenClamped ==
  [][ (Calls("update_needs") /\ op'.ticks = 1 /\ op'.died_at = -1 /\ pet.awake)
        => pet'.happiness
             = Max(0, pet.happiness
                        - Penalties(pet, pet'.hunger, pet'.energy, Stage(pet, now))) ]_vars

\* an awake tick of an ill, dirty and hungry pet has taken several penalties at
\* once, the happiness staying above the floor
C30_Witness ==
  /\ op.name = "update_needs" /\ op.ticks = 1 /\ op.died_at = -1
  /\ pet.illness_type # "None" /\ pet.hunger > 75 /\ pet.poop_count > 0
  /\ pet.happiness > 0 /\ (pet.awake \/ pet.is_dead)

\* the health delta of a tick, from the waste count, hunger and energy the tick
\* has set and the illness and wakefulness it ran with
HealthDelta(poop_count, hunger, energy, awake, illness_type) ==
    (IF poop_count >= MAX_POOP THEN -HEALTH_DECAY_POOP ELSE 0)
  + (IF hunger >= CRITICAL_HUNGER_THRESHOLD THEN -HEALTH_DECAY_HUNGER ELSE 0)
  + (IF illness_type = "Cold" THEN -2 ELSE 0)
  + (IF illness_type = "Stomachache" THEN -3 ELSE 0)
  + (IF poop_count = 0 /\ hunger < 50 /\ energy > 30 /\ awake /\ illness_type = "None"
     THEN HEALTH_REGEN_CLEAN_FED ELSE 0)

\* C31: the health delta of a tick is the sum of -HEALTH_DECAY_POOP iff
\* poop_count >= MAX_POOP, -HEALTH_DECAY_HUNGER iff hunger >= CRITICAL_HUNGER_THRESHOLD,
\* -2 iff Cold, -3 iff Stomachache and +HEALTH_REGEN_CLEAN_FED iff poop_count = 0,
\* hunger < 50, energy > 30, awake and not ill, read after the tick's stat decay and
\* waste roll, and the health moves by it within [0,100].  Checked on the
\* update_needs calls that run one tick, where the states before and after the call
\* are those around the tick.
C31_HealthDelta ==
  [][ (Calls("update_needs") /\ op'.ticks = 1 /\ op'.died_at = -1)
        => pet'.health
             = Max(0, Min(100, pet.health
                                 + HealthDelta(pet'.poop_count, pet'.hunger, pet'.energy,
                                               pet.awake, pet.illness_type))) ]_vars

\* an awake tick has ended with waste present but below MAX_POOP and a health
\* strictly inside the range
C31_Witness ==
  /\ op.name = "update_needs" /\ op.ticks = 1 /\ op.died_at = -1
  /\ pet.poop_count > 0 /\ pet.poop_count < MAX_POOP
  /\ pet.awake /\ pet.health > 0 /\ pet.health < 100

\* the handlers that need the pet awake
NeedAwake == {"feed", "play_game", "scold", "train", "do_trick", "pet"}

\* C32: feed, play_game, scold, train, do_trick and pet, called while awake is false,
\* return success = false and change no field, in every state and for every argument.
C32_AsleepRejected ==
  [][ (CallsHandler /\ op'.name \in NeedAwake /\ ~pet.awake)
        => (~op'.success /\ ~op'.raised /\ pet' = pet) ]_vars

\* a scold was turned down by a living pet that sleeps
C32_Witness ==
  /\ op.name = "scold" /\ op.msg = "sleeping" /\ ~op.success
  /\ ~pet.awake /\ ~pet.is_dead

\* how long after the iteration before the next one may start: at once, or after
\* the owner has sat at the prompt of line 563 for some minutes
LongWait == 400

TurnWaits == ClockMoves \cup {LongWait}

\* C33 (as claimed): the automatic actions of the main loop cannot follow one another
\* without end; right after an automatic sleep that succeeded no automatic wake
\* condition holds, and right after an automatic wake no automatic sleep succeeds.
\* Stated for the living pet an iteration has left and the iteration that starts d
\* seconds later: if its automatic action succeeds, the automatic action tried on the
\* pet that one leaves does not.
C33_AutoActionsEnd ==
  ~pet.is_dead
    => \A d \in TurnWaits :
         \A a \in AutoAction(pet, now + d) :
           (a.success /\ ~a.pet.is_dead)
             => \A b \in AutoAction(a.pet, now + d) : ~b.success

====
